---- MODULE Spec2Model ----
(***************************************************************************)
(* Model of examples/phone-chatbot: the SilenceWatcher frame processor     *)
(* (silence_watcher.py) and the CallStats record it owns (call_stats.py).  *)
(*                                                                         *)
(* The watcher runs on one asyncio event loop.  Code between two awaits is *)
(* atomic, so every action below is the code from one suspension point to  *)
(* the next.  The background task _monitor_silence is followed by `pc`;    *)
(* process_frame and cleanup are entered by the hosting pipeline.          *)
(* Time is an integer number of seconds; None is modelled by NoTime (both  *)
(* are falsy in the truth tests of the code, and time.time() never is).    *)
(***************************************************************************)
EXTENDS Integers, Sequences, FiniteSets, TLC

\* ---------------------------------------------------------------- bounds
MaxTime == 9            \* the clock stops advancing here
MaxFrames == 3          \* frames delivered to process_frame
MaxCleanups == 2        \* calls of cleanup()
MaxThreshold == 1       \* threshold_secs is drawn from 1..MaxThreshold
MaxMaxPrompts == 2      \* max_prompts is drawn from 0..MaxMaxPrompts
MaxCallSeconds == 130   \* length of the long quiet call of SpecFmt
MaxTerminations == 1    \* runs of terminate_call when it is called from outside

\* ------------------------------------------------------ program constants
NoTime == 0             \* None (call_end_time, last_bot_spoke_time)
TickInterval == 1       \* asyncio.sleep(1)
PacingDelay == 2        \* asyncio.sleep(2)

FrameKinds == {"BotStoppedSpeaking", "UserStartedSpeaking", "Other"}
Directions == {"DOWNSTREAM", "UPSTREAM"}
\* the frames the pipeline delivers: the speech frames travel as the
\* transports push them (bot frames upstream from the output transport, user
\* frames downstream from the input transport), any other frame downstream
Frames ==
    {[kind |-> "BotStoppedSpeaking", dir |-> "UPSTREAM"],
     [kind |-> "UserStartedSpeaking", dir |-> "DOWNSTREAM"],
     [kind |-> "Other", dir |-> "DOWNSTREAM"]}

NoFrame == [kind |-> "None", dir |-> "None"]
AllFrames == [kind : FrameKinds, dir : Directions]
NoFrames == [f \in AllFrames |-> 0]
Total(count) ==
    LET RECURSIVE Sum(_)
        Sum(S) == IF S = {} THEN 0
                  ELSE LET f == CHOOSE g \in S : TRUE IN count[f] + Sum(S \ {f})
    IN  Sum(AllFrames)

VARIABLES
    \* SilenceWatcher fields
    threshold_secs, max_prompts,
    awaiting_response, last_bot_spoke_time, unanswered_count, monitoring_active,
    \* CallStats fields
    call_start_time, call_end_time,
    silence_events, user_speech_events, bot_speech_events, prompts_sent,
    \* the loop task: where _monitor_silence is suspended, and when its sleep ends
    pc, wake,
    \* environment: the clock, the frame process_frame is working on (one at a
    \* time, in arrival order), how many of each frame arrived, calls of cleanup
    now, inflight, received, cleanups,
    \* outputs: how many of each frame were pushed on, log of summaries,
    \* prompts given to the tts sink, set_call_terminated() calls,
    \* EndTaskFrames pushed upstream, the calls made to the logger, the
    \* collaborator and the pipeline in the order they were made (each with
    \* the value monitoring_active had), what the last cleanup raised
    forwarded, summaries, dispatched, terminated_count, endtask_count,
    calls, cleanup_raised,
    \* history: the time the last prompt action re-armed the timer, whether a
    \* user frame was handled while awaiting (since the last bot frame),
    \* whether one was handled while a prompt action was in progress, and the
    \* value of prompts_sent when the last user frame was handled
    prompt_done_time, answered, userInPrompt, prompts_at_user

config == <<threshold_secs, max_prompts>>
watcher == <<awaiting_response, last_bot_spoke_time, unanswered_count, monitoring_active>>
stats == <<call_start_time, call_end_time, silence_events, user_speech_events,
           bot_speech_events, prompts_sent>>
task == <<pc, wake>>
env == <<now, inflight, received, cleanups>>
outputs == <<forwarded, summaries, dispatched, terminated_count, endtask_count,
             calls, cleanup_raised>>
history == <<prompt_done_time, answered, userInPrompt, prompts_at_user>>
vars == <<config, watcher, stats, task, env, outputs, history>>

\* ------------------------------------------------------------- CallStats
\* the methods are evaluated with the value `e` that call_end_time holds
\* when they are called
duration_seconds(e) ==
    LET end_time == IF e # NoTime THEN e ELSE now
    IN  end_time - call_start_time

format_duration_NoRemainder(e) ==
    LET total == duration_seconds(e)
        minutes == total \div 60
        seconds == total
    IN  [minutes |-> minutes, tens |-> seconds \div 10, ones |-> seconds % 10]

\* f"{minutes}:{seconds:02d}": the minutes and the two digits of the seconds
format_duration(e) ==
    LET total == duration_seconds(e)
        minutes == total \div 60
        seconds == total % 60
    IN  [minutes |-> minutes, tens |-> seconds \div 10, ones |-> seconds % 10]

\* the lines of the summary after its header, in their order
generate_summary(e) ==
    [duration |-> format_duration(e),
     silence_events |-> silence_events,
     prompts_sent |-> prompts_sent,
     user_speech_events |-> user_speech_events,
     bot_speech_events |-> bot_speech_events]

\* ------------------------------------------------------------------ Init
Init ==
    /\ threshold_secs \in 1..MaxThreshold
    /\ max_prompts \in 0..MaxMaxPrompts
    /\ awaiting_response = FALSE
    /\ last_bot_spoke_time = NoTime
    /\ unanswered_count = 0
    /\ monitoring_active = TRUE
    /\ now = 1
    /\ call_start_time = 1
    /\ call_end_time = NoTime
    /\ silence_events = 0
    /\ user_speech_events = 0
    /\ bot_speech_events = 0
    /\ prompts_sent = 0
    /\ pc = "start"
    /\ wake = NoTime
    /\ inflight = NoFrame
    /\ received = NoFrames
    /\ cleanups = 0
    /\ forwarded = NoFrames
    /\ summaries = <<>>
    /\ dispatched = 0
    /\ terminated_count = 0
    /\ endtask_count = 0
    /\ calls = <<>>
    /\ cleanup_raised = "none"
    /\ prompt_done_time = NoTime
    /\ answered = FALSE
    /\ userInPrompt = FALSE
    /\ prompts_at_user = 0

\* the clock.  The event loop is never blocked (every handler is short), so
\* a task is started and a sleep that is over is resumed before the clock
\* moves on; tts.process_frame and push_frame may take any time
AdvanceTime ==
    /\ now < MaxTime
    /\ pc # "start"
    /\ pc \in {"sleep1", "sleep2"} => now < wake
    /\ now' = now + 1
    /\ UNCHANGED <<config, watcher, stats, task, inflight, received, cleanups,
                   outputs, history>>

\* -------------------------------------------------------- _monitor_silence
\* `while self.monitoring_active:` followed by `await asyncio.sleep(1)`
LoopTop(active) == IF active THEN "sleep1" ELSE "done"

ShouldCheck_IgnoresAwaiting == last_bot_spoke_time # NoTime

\* `if self.awaiting_response and self.last_bot_spoke_time:`
ShouldCheck == awaiting_response /\ last_bot_spoke_time # NoTime

SilenceExceeded_AtLeast(elapsed) == elapsed >= threshold_secs

\* `if elapsed > self.threshold_secs:`
SilenceExceeded(elapsed) == elapsed > threshold_secs

RearmTime_Stale(t) == last_bot_spoke_time

\* `self.last_bot_spoke_time = time.time()` after the prompt was dispatched
RearmTime(t) == t

MaxReached_Strict == unanswered_count > max_prompts

\* `if self.unanswered_count >= self.max_prompts:`
MaxReached == unanswered_count >= max_prompts

\* an entry of the log of calls
Call(op, active) == [op |-> op, active |-> active]

TerminateCalls_SignalFirst(active) ==
    <<Call("EndTaskFrame", active), Call("summary", active),
      Call("set_call_terminated", active)>>

\* the calls terminate_call makes, in the order of its statements:
\* logger.info(summary), set_call_terminated(), then, after
\* `self.monitoring_active = False`, push_frame(EndTaskFrame)
TerminateCalls(active) ==
    <<Call("summary", active), Call("set_call_terminated", active),
      Call("EndTaskFrame", FALSE)>>

\* the body of terminate_call up to its await of push_frame(EndTaskFrame)
terminate_call ==
    /\ call_end_time' = now
    /\ summaries' = Append(summaries, generate_summary(now))
    /\ terminated_count' = terminated_count + 1
    /\ monitoring_active' = FALSE
    /\ endtask_count' = endtask_count + 1
    /\ calls' = calls \o TerminateCalls(monitoring_active)

\* the task's first step: the loop test, then it sleeps
TaskStart ==
    /\ pc = "start"
    /\ pc' = LoopTop(monitoring_active)
    /\ wake' = now + TickInterval
    /\ UNCHANGED <<config, watcher, stats, env, outputs, history>>

\* asyncio.sleep(1) is over: the silence check, up to the pacing delay or
\* round the loop to the next sleep
CheckSilence ==
    /\ pc = "sleep1"
    /\ now >= wake
    /\ IF ShouldCheck /\ SilenceExceeded(now - last_bot_spoke_time)
       THEN /\ awaiting_response' = FALSE
            /\ unanswered_count' = unanswered_count + 1
            /\ silence_events' = silence_events + 1
            /\ prompts_sent' = prompts_sent + 1
            /\ pc' = "sleep2"
            /\ wake' = now + PacingDelay
            /\ UNCHANGED <<last_bot_spoke_time, monitoring_active>>
       ELSE /\ pc' = LoopTop(monitoring_active)
            /\ wake' = now + TickInterval
            /\ UNCHANGED <<watcher, silence_events, prompts_sent>>
    /\ UNCHANGED <<config, call_start_time, call_end_time, user_speech_events,
                   bot_speech_events, env, outputs, history>>

\* asyncio.sleep(2) is over: the TextFrame is handed to tts.process_frame
Dispatch ==
    /\ pc = "sleep2"
    /\ now >= wake
    /\ dispatched' = dispatched + 1
    /\ pc' = "tts"
    /\ UNCHANGED <<config, watcher, stats, wake, env, forwarded, summaries,
                   terminated_count, endtask_count, calls, cleanup_raised, history>>

\* tts.process_frame returned: re-arm, then terminate_call or round the loop
TtsReturn ==
    /\ pc = "tts"
    /\ last_bot_spoke_time' = RearmTime(now)
    /\ awaiting_response' = TRUE
    /\ prompt_done_time' = now
    /\ IF MaxReached
       THEN /\ terminate_call
            /\ pc' = "push_end"
            /\ UNCHANGED wake
       ELSE /\ pc' = LoopTop(monitoring_active)
            /\ wake' = now + TickInterval
            /\ UNCHANGED <<monitoring_active, call_end_time, summaries,
                           terminated_count, endtask_count, calls>>
    /\ UNCHANGED <<config, unanswered_count, call_start_time, silence_events,
                   user_speech_events, bot_speech_events, prompts_sent, env,
                   forwarded, dispatched, cleanup_raised, answered, userInPrompt,
                   prompts_at_user>>

\* push_frame(EndTaskFrame) returned: terminate_call returns, the loop test
PushReturn ==
    /\ pc = "push_end"
    /\ pc' = LoopTop(monitoring_active)
    /\ wake' = IF monitoring_active THEN now + TickInterval ELSE wake
    /\ UNCHANGED <<config, watcher, stats, env, outputs, history>>

\* terminate_call awaited by a caller other than the loop task
ExternalTerminate ==
    /\ terminated_count < MaxTerminations
    /\ terminate_call
    /\ UNCHANGED <<config, awaiting_response, last_bot_spoke_time, unanswered_count,
                   call_start_time, silence_events, user_speech_events,
                   bot_speech_events, prompts_sent, task, env, forwarded,
                   dispatched, cleanup_raised, history>>

\* ----------------------------------------------------------- process_frame
\* the pipeline hands the next frame to process_frame, which awaits
\* super().process_frame first
ReceiveFrame ==
    /\ inflight = NoFrame
    /\ Total(received) < MaxFrames
    /\ \E f \in Frames :
          /\ inflight' = f
          /\ received' = [received EXCEPT ![f] = @ + 1]
    /\ UNCHANGED <<config, watcher, stats, task, now, cleanups, outputs, history>>

IsBotStopped_OrOther(f) == f.kind \in {"BotStoppedSpeaking", "Other"}

\* `isinstance(frame, BotStoppedSpeakingFrame)`
IsBotStopped(f) == f.kind = "BotStoppedSpeaking"

IsUserStarted_OrOther(f) == f.kind \in {"UserStartedSpeaking", "Other"}

\* `isinstance(frame, UserStartedSpeakingFrame)`
IsUserStarted(f) == f.kind = "UserStartedSpeaking"

ForwardedFrame_Downstream(f) == [kind |-> f.kind, dir |-> "DOWNSTREAM"]

\* `await self.push_frame(frame, direction)`
ForwardedFrame(f) == [kind |-> f.kind, dir |-> f.dir]

\* the loop task is between the timeout it detected and its re-arm
InPromptAction == pc \in {"sleep2", "tts"}

\* the rest of process_frame: the isinstance branches, then push_frame
HandleFrame ==
    /\ inflight # NoFrame
    /\ LET f == inflight IN
       /\ IF IsBotStopped(f)
          THEN /\ awaiting_response' = TRUE
               /\ last_bot_spoke_time' = now
               /\ bot_speech_events' = bot_speech_events + 1
               /\ answered' = FALSE
               /\ userInPrompt' = FALSE
               /\ UNCHANGED <<unanswered_count, user_speech_events>>
          ELSE IF IsUserStarted(f)
          THEN /\ awaiting_response' = FALSE
               /\ unanswered_count' = 0
               /\ user_speech_events' = user_speech_events + 1
               /\ answered' = (answered \/ awaiting_response)
               /\ userInPrompt' = (userInPrompt \/ InPromptAction)
               /\ UNCHANGED <<last_bot_spoke_time, bot_speech_events>>
          ELSE UNCHANGED <<awaiting_response, last_bot_spoke_time, unanswered_count,
                           user_speech_events, bot_speech_events, answered,
                           userInPrompt>>
       /\ prompts_at_user' =
             IF f.kind = "UserStartedSpeaking" THEN prompts_sent ELSE prompts_at_user
       /\ forwarded' = [forwarded EXCEPT ![ForwardedFrame(f)] = @ + 1]
    /\ inflight' = NoFrame
    /\ UNCHANGED <<config, monitoring_active, call_start_time, call_end_time,
                   silence_events, prompts_sent, task, now, received, cleanups,
                   summaries, dispatched, terminated_count, endtask_count, calls,
                   cleanup_raised, prompt_done_time>>

\* ----------------------------------------------------------------- cleanup
NeedsFinalize_Always == TRUE

\* `if not self.stats.call_end_time:`
NeedsFinalize == call_end_time = NoTime

CancelTask_Forgets(p) == p

CancelTask_OnlyAsleep(p) == IF p \in {"start", "sleep1"} THEN "cancelled" ELSE p

\* `if self.loop_task and not self.loop_task.done(): self.loop_task.cancel()`:
\* a task that has not finished gets CancelledError at the await it is
\* suspended in and ends there; cleanup awaits it and swallows the error
CancelTask(p) == IF p \in {"done", "cancelled"} THEN p ELSE "cancelled"

ExceptCancelled_Missing(exc) == exc

\* `try: await self.loop_task` / `except asyncio.CancelledError: pass`: what
\* leaves cleanup when awaiting the task raises `exc`
ExceptCancelled(exc) == IF exc = "CancelledError" THEN "none" ELSE exc

\* what awaiting the loop task raises once cancel() was called on it
AwaitCancelled == "CancelledError"

Cleanup ==
    /\ cleanups < MaxCleanups
    /\ cleanups' = cleanups + 1
    /\ IF NeedsFinalize
       THEN /\ call_end_time' = now
            /\ summaries' = Append(summaries, generate_summary(now))
            /\ calls' = Append(calls, Call("summary", monitoring_active))
       ELSE UNCHANGED <<call_end_time, summaries, calls>>
    /\ monitoring_active' = FALSE
    /\ pc' = CancelTask(pc)
    /\ cleanup_raised' =
          IF pc \in {"done", "cancelled"} THEN "none" ELSE ExceptCancelled(AwaitCancelled)
    /\ UNCHANGED <<config, awaiting_response, last_bot_spoke_time, unanswered_count,
                   call_start_time, silence_events, user_speech_events,
                   bot_speech_events, prompts_sent, wake, now, inflight, received,
                   forwarded, dispatched, terminated_count, endtask_count, history>>

\* ---------------------------------------------------------- specifications
Next ==
    \/ AdvanceTime
    \/ TaskStart
    \/ CheckSilence
    \/ Dispatch
    \/ TtsReturn
    \/ PushReturn
    \/ ReceiveFrame
    \/ HandleFrame
    \/ Cleanup

Spec == Init /\ [][Next]_vars

\* one second of a quiet call: the clock moves on, the sleep of the loop task
\* ends, there is no window to check (line 50) and the task sleeps again
QuietSecond ==
    /\ pc = "sleep1"
    /\ ~ShouldCheck
    /\ now < call_start_time + MaxCallSeconds
    /\ now' = now + 1
    /\ pc' = LoopTop(monitoring_active)
    /\ wake' = now' + TickInterval
    /\ UNCHANGED <<config, watcher, stats, inflight, received, cleanups, outputs,
                   history>>

\* a call in which nothing is said, of any length up to MaxCallSeconds, ended
\* by cleanup: the durations the summary has to format
NextFmt == TaskStart \/ QuietSecond \/ Cleanup

SpecFmt == Init /\ [][NextFmt]_vars

\* ---- the escalation left alone: no user frame, no cleanup ----
\* the clock of the model still has room for max_prompts windows, each with
\* its tick and its pacing delay (one window when max_prompts is 0)
EnoughClock ==
    LET windows == IF max_prompts = 0 THEN 1 ELSE max_prompts
    IN  now + windows * (threshold_secs + TickInterval + PacingDelay) <= MaxTime

\* time passes only while nothing is ready to run: frames are handled as
\* they arrive and tts.process_frame and push_frame return at once
LiveTime ==
    /\ inflight = NoFrame
    /\ pc \notin {"tts", "push_end"}
    /\ AdvanceTime

\* the pipeline delivers no UserStartedSpeakingFrame, and a
\* BotStoppedSpeakingFrame only while the clock has room for the escalation
LiveReceive ==
    /\ ReceiveFrame
    /\ inflight'.kind # "UserStartedSpeaking"
    /\ inflight'.kind = "BotStoppedSpeaking" => EnoughClock

NextLive ==
    \/ LiveTime
    \/ TaskStart
    \/ CheckSilence
    \/ Dispatch
    \/ TtsReturn
    \/ PushReturn
    \/ LiveReceive
    \/ HandleFrame

\* the event loop runs every coroutine that is ready, timers expire, and the
\* awaited calls return
SpecLive ==
    /\ Init
    /\ [][NextLive]_vars
    /\ WF_vars(LiveTime)
    /\ WF_vars(TaskStart)
    /\ WF_vars(CheckSilence)
    /\ WF_vars(Dispatch)
    /\ WF_vars(TtsReturn)
    /\ WF_vars(PushReturn)
    /\ WF_vars(HandleFrame)

\* the same watcher when terminate_call, a public coroutine of the class, is
\* also awaited by the hosting application
NextApi == Next \/ ExternalTerminate

\* one configuration is enough to exercise the public entry point
InitApi == Init /\ threshold_secs = 1 /\ max_prompts = 1

SpecApi == InitApi /\ [][NextApi]_vars

TypeOK ==
    /\ threshold_secs \in 1..MaxThreshold
    /\ max_prompts \in 0..MaxMaxPrompts
    /\ awaiting_response \in BOOLEAN
    /\ monitoring_active \in BOOLEAN
    /\ last_bot_spoke_time \in 0..MaxTime
    /\ unanswered_count \in Nat
    /\ call_end_time \in 0..MaxTime
    /\ pc \in {"start", "sleep1", "sleep2", "tts", "push_end", "done", "cancelled"}
    /\ now \in 1..MaxTime
    /\ inflight \in Frames \cup {NoFrame}
    /\ received \in [AllFrames -> 0..MaxFrames]
    /\ forwarded \in [AllFrames -> 0..MaxFrames]

\* ----------------------------------------------------------- observations
\* how many of each frame process_frame has finished with
Handled ==
    [f \in AllFrames |-> IF f = inflight THEN received[f] - 1 ELSE received[f]]

CountKind(count, k) ==
    LET RECURSIVE Sum(_)
        Sum(S) == IF S = {} THEN 0
                  ELSE LET d == CHOOSE e \in S : TRUE
                       IN  count[[kind |-> k, dir |-> d]] + Sum(S \ {d})
    IN  Sum(Directions)

\* exactly one bot frame and no user frame were handled
OneBotFrameUnanswered ==
    /\ CountKind(Handled, "BotStoppedSpeaking") = 1
    /\ CountKind(Handled, "UserStartedSpeaking") = 0

\* ------------------------------------------------------------------ claims

\* C1: with max_prompts >= 1, after one BotStoppedSpeaking frame, no user
\* frame and no cleanup, at most max_prompts prompts are counted and
\* dispatched; the prompt action that brings unanswered_count to max_prompts
\* runs the termination sequence in the same step (the task is never back in
\* its sleep with the maximum reached and no termination); and once the
\* termination has run, unanswered_count, prompts_sent, silence_events and
\* the dispatched prompts all equal max_prompts and the collaborator was
\* marked terminated exactly once.
C1_MaxPromptsThenTerminate ==
    (max_prompts >= 1 /\ OneBotFrameUnanswered /\ cleanups = 0) =>
        /\ prompts_sent <= max_prompts
        /\ dispatched <= max_prompts
        /\ (unanswered_count = max_prompts /\ ~InPromptAction) => terminated_count = 1
        /\ terminated_count >= 1 =>
              /\ terminated_count = 1
              /\ unanswered_count = max_prompts
              /\ prompts_sent = max_prompts
              /\ silence_events = max_prompts
              /\ dispatched = max_prompts

C1_Witness ==
    /\ max_prompts = 2
    /\ OneBotFrameUnanswered
    /\ cleanups = 0
    /\ terminated_count = 1
    /\ dispatched = 2
    /\ pc = "done"

\* C2: a UserStartedSpeaking frame handled while a prompt action is in
\* progress (pacing delay or dispatch) is not lost: with no later bot frame,
\* once the prompt action is over awaiting_response is false and
\* unanswered_count is 0.
C2_UserEventNotLost ==
    (userInPrompt /\ ~InPromptAction) =>
        (~awaiting_response /\ unanswered_count = 0)

\* C3: whatever the interleaving of the automatic termination and cleanup,
\* the summary is emitted exactly once: never twice, once as soon as either
\* has run, and a cleanup that follows the termination changes neither the
\* end time nor the log of summaries.
C3_SummaryOnce ==
    /\ [](/\ Len(summaries) <= 1
          /\ (terminated_count >= 1 \/ cleanups >= 1) => Len(summaries) = 1
          /\ Len(summaries) = 1 => call_end_time # NoTime)
    /\ [][(terminated_count >= 1 /\ cleanups' = cleanups + 1) =>
             (call_end_time' = call_end_time /\ summaries' = summaries)]_vars

C3_Witness ==
    /\ terminated_count = 1
    /\ cleanups >= 1
    /\ Len(summaries) = 1
    /\ call_end_time # NoTime
    /\ call_end_time < now

\* C4: once call_end_time is set, no step changes it.
C4_EndTimeWriteOnce ==
    [][call_end_time # NoTime => call_end_time' = call_end_time]_vars

C4_Witness ==
    /\ cleanups = 2
    /\ terminated_count = 0
    /\ call_end_time # NoTime
    /\ call_end_time < now
    /\ Len(summaries) = 1

\* C5: the termination sequence is idempotent: a step taken when
\* monitoring_active is already false or the stats are already finalized
\* emits no summary, does not mark the collaborator terminated and pushes no
\* EndTaskFrame.
C5_TerminateIdempotent ==
    [][(~monitoring_active \/ call_end_time # NoTime) =>
          /\ summaries' = summaries
          /\ terminated_count' = terminated_count
          /\ endtask_count' = endtask_count]_vars

\* C6: after a UserStartedSpeaking frame was handled while awaiting_response
\* was true, and until a later BotStoppedSpeaking frame is handled,
\* unanswered_count is 0 and no prompt is counted or handed to the tts sink.
C6_UserCancelsPrompt ==
    /\ [](answered => unanswered_count = 0)
    /\ [][(answered /\ answered') =>
             (prompts_sent' = prompts_sent /\ dispatched' = dispatched)]_vars

\* C7: bot_speech_events is the number of BotStoppedSpeaking frames and
\* user_speech_events the number of UserStartedSpeaking frames that
\* process_frame has handled.
C7_SpeechCounters ==
    /\ bot_speech_events = CountKind(Handled, "BotStoppedSpeaking")
    /\ user_speech_events = CountKind(Handled, "UserStartedSpeaking")

C7_Witness ==
    /\ bot_speech_events >= 1
    /\ user_speech_events >= 1
    /\ Total(Handled) = 3
    /\ CountKind(Handled, "Other") = 1
    /\ ~monitoring_active

\* C8: every frame handled has been pushed on once, unchanged and in its
\* direction (the counts of pushed and of handled frames agree frame by
\* frame); process_frame works on one frame at a time; and the only change to
\* the output is the push of the frame being handled, which ends its
\* handling, so frames leave in the order they arrived.
C8_PassThrough ==
    /\ [](forwarded = Handled)
    /\ [][\/ forwarded' = forwarded
          \/ /\ inflight # NoFrame
             /\ inflight' = NoFrame
             /\ forwarded' = [forwarded EXCEPT ![inflight] = @ + 1]]_vars

C8_Witness ==
    /\ Total(forwarded) = 3
    /\ inflight = NoFrame
    /\ forwarded[[kind |-> "BotStoppedSpeaking", dir |-> "UPSTREAM"]] = 1
    /\ forwarded[[kind |-> "UserStartedSpeaking", dir |-> "DOWNSTREAM"]] = 1
    /\ forwarded[[kind |-> "Other", dir |-> "DOWNSTREAM"]] = 1
    /\ pc = "cancelled"
    /\ unanswered_count = 0
    /\ prompts_sent = 1

\* C9: with max_prompts 0 or 1, as soon as the first prompt action is over
\* the termination sequence has run, and only one prompt was counted.
C9_FirstTimeoutTerminates ==
    (max_prompts <= 1 /\ prompt_done_time # NoTime) =>
        (terminated_count = 1 /\ prompts_sent = 1)

\* C10: the prompt action re-arms the timer with the time at which the
\* pacing delay and the dispatch are over (not before the end of the delay),
\* and a further timeout is detected no earlier than threshold_secs after
\* that re-arm.
C10_DelayNotCounted ==
    [][/\ (pc = "tts" /\ pc' \in {"sleep1", "push_end", "done"}) =>
             (last_bot_spoke_time' = now /\ last_bot_spoke_time' >= wake)
       /\ (prompts_sent' = prompts_sent + 1 /\ prompt_done_time # NoTime) =>
             now - prompt_done_time >= threshold_secs]_vars

C10_Witness ==
    /\ prompts_sent = 2
    /\ pc = "sleep2"
    /\ prompt_done_time # NoTime
    /\ now - prompt_done_time > threshold_secs

\* C11: a timeout is detected only for a window that was armed after the
\* previous prompt: at the step that counts a prompt, awaiting_response is
\* true, every prompt counted before has been dispatched and its prompt
\* action has re-armed the timer no later than the time the window started,
\* and more than threshold_secs have passed since that start.  At most one
\* counted prompt is ever waiting for its dispatch.
C11_OnePromptPerWindow ==
    /\ [](prompts_sent - dispatched \in {0, 1})
    /\ [][prompts_sent' = prompts_sent + 1 =>
             /\ awaiting_response
             /\ dispatched = prompts_sent
             /\ last_bot_spoke_time # NoTime
             /\ last_bot_spoke_time >= prompt_done_time
             /\ prompts_sent >= 1 => prompt_done_time # NoTime
             /\ now - last_bot_spoke_time > threshold_secs]_vars

C11_Witness ==
    /\ prompts_sent = 2
    /\ dispatched = 1
    /\ pc = "sleep2"
    /\ bot_speech_events = 2
    /\ user_speech_events = 1
    /\ last_bot_spoke_time > prompt_done_time

\* C12: cleanup never lets an error out; called when the loop task has
\* already ended it leaves the task as it is, called while the task is still
\* suspended it cancels it; and once a cleanup has returned the task is over
\* and monitoring_active is false.
C12_CleanupSafe ==
    /\ [](/\ cleanup_raised = "none"
          /\ cleanups >= 1 => (pc \in {"done", "cancelled"} /\ ~monitoring_active))
    /\ [][cleanups' = cleanups + 1 =>
             /\ pc \in {"done", "cancelled"} => pc' = pc
             /\ pc \notin {"done", "cancelled"} => pc' = "cancelled"
             /\ ~monitoring_active']_vars

C12_Witness ==
    /\ cleanups = 2
    /\ pc = "cancelled"
    /\ prompts_sent = 1
    /\ dispatched = 1
    /\ prompt_done_time = NoTime
    /\ cleanup_raised = "none"

\* C13: the duration in a summary is the call's whole seconds d written as
\* d div 60 minutes and d mod 60 seconds in exactly two digits: the minutes
\* and the two digits give back d, the tens digit is in 0..5 and the ones
\* digit in 0..9, so the seconds field is in 0..59.
C13_FormatDuration ==
    \A i \in 1..Len(summaries) :
        LET r == summaries[i].duration
            d == call_end_time - call_start_time
        IN  /\ d >= 0
            /\ r.minutes = d \div 60
            /\ r.tens \in 0..5
            /\ r.ones \in 0..9
            /\ 10 * r.tens + r.ones = d % 60
            /\ 60 * r.minutes + 10 * r.tens + r.ones = d

C13_Witness ==
    /\ Len(summaries) = 1
    /\ call_end_time - call_start_time = 65
    /\ summaries[1].duration = [minutes |-> 1, tens |-> 0, ones |-> 5]

\* a step of the loop task that ends its one-second sleep and makes the
\* silence check (the only step that moves `wake` on from that sleep)
TickStep == pc = "sleep1" /\ wake' # wake

\* C14 as stated: at a tick with awaiting_response true and
\* last_bot_spoke_time set, a prompt is counted whenever the elapsed time is
\* greater than or equal to threshold_secs.
C14_FiresAtThreshold ==
    [][(TickStep /\ awaiting_response /\ last_bot_spoke_time # NoTime
          /\ now - last_bot_spoke_time >= threshold_secs)
         => prompts_sent' = prompts_sent + 1]_vars

\* C14 as amended: at such a tick a prompt is counted exactly when the
\* elapsed time is strictly greater than threshold_secs; at an elapsed time
\* equal to the threshold the tick does nothing.
C14_FiresAboveThreshold ==
    [][(TickStep /\ awaiting_response /\ last_bot_spoke_time # NoTime) =>
          /\ now - last_bot_spoke_time > threshold_secs
                => (prompts_sent' = prompts_sent + 1 /\ pc' = "sleep2"
                    /\ ~awaiting_response')
          /\ now - last_bot_spoke_time <= threshold_secs
                => (prompts_sent' = prompts_sent /\ pc' = "sleep1"
                    /\ awaiting_response')]_vars

C14_Witness ==
    /\ pc = "sleep1"
    /\ wake = now + TickInterval
    /\ awaiting_response
    /\ last_bot_spoke_time # NoTime
    /\ now - last_bot_spoke_time = threshold_secs
    /\ prompts_sent = 0
    /\ inflight = NoFrame
    /\ bot_speech_events = 1

\* the watcher has terminated the call: monitoring stopped, collaborator
\* marked, EndTaskFrame pushed, the loop of the task left
Terminated ==
    /\ ~monitoring_active
    /\ terminated_count >= 1
    /\ endtask_count >= 1
    /\ pc = "done"

\* C15: when no user frame and no cleanup ever come, ticks keep running and
\* the calls the task awaits return, a handled BotStoppedSpeakingFrame leads
\* to the terminated state.
C15_EventuallyTerminated == (bot_speech_events >= 1) ~> Terminated

C15_Witness ==
    /\ Terminated
    /\ max_prompts = 2
    /\ bot_speech_events = 2
    /\ prompts_sent = 2
    /\ dispatched = 2

\* C16: once monitoring_active is false it stays false, no prompt is counted
\* or handed to the tts sink any more, and the silence check no longer
\* touches the watcher: awaiting_response, last_bot_spoke_time and
\* unanswered_count change only when process_frame handles a frame.
C16_StoppedForGood ==
    [][~monitoring_active =>
          /\ ~monitoring_active'
          /\ dispatched' = dispatched
          /\ prompts_sent' = prompts_sent
          /\ silence_events' = silence_events
          /\ pc' \notin {"sleep1", "sleep2", "tts"}
          /\ \/ (inflight # NoFrame /\ inflight' = NoFrame)
             \/ UNCHANGED <<awaiting_response, last_bot_spoke_time,
                            unanswered_count>>]_vars

C16_Witness ==
    /\ ~monitoring_active
    /\ pc = "cancelled"
    /\ awaiting_response
    /\ last_bot_spoke_time # NoTime
    /\ now - last_bot_spoke_time > threshold_secs + TickInterval
    /\ prompts_sent = 0
    /\ dispatched = 0

\* C17: terminate_call sets the end time and logs the summary, then marks
\* the collaborator, then clears monitoring_active, then pushes the
\* EndTaskFrame: every EndTaskFrame in the log of calls comes right after a
\* set_call_terminated that comes right after a summary, both made while
\* monitoring_active was still true, and is itself pushed with
\* monitoring_active false; and whenever an EndTaskFrame has been pushed the
\* end time is set, a summary is logged, the collaborator is marked and
\* monitoring_active is false.
C17_TerminationOrder ==
    /\ \A i \in 1..Len(calls) :
          calls[i].op = "EndTaskFrame" =>
             /\ ~calls[i].active
             /\ i >= 3
             /\ calls[i - 1] = Call("set_call_terminated", TRUE)
             /\ calls[i - 2] = Call("summary", TRUE)
    /\ \A i \in 1..Len(calls) :
          calls[i].op = "set_call_terminated" =>
             (i + 1 <= Len(calls) /\ calls[i + 1].op = "EndTaskFrame")
    /\ endtask_count >= 1 =>
          /\ call_end_time # NoTime
          /\ Len(summaries) >= 1
          /\ terminated_count >= 1
          /\ ~monitoring_active
    /\ terminated_count = endtask_count

C17_Witness ==
    /\ calls = <<Call("summary", TRUE), Call("set_call_terminated", TRUE),
                 Call("EndTaskFrame", FALSE)>>
    /\ pc = "push_end"
    /\ endtask_count = 1
    /\ call_end_time = now

\* C18: once the end time is set and the summary has been logged, the four
\* counters silence_events, prompts_sent, user_speech_events and
\* bot_speech_events never change again, so the logged summary still
\* carries the values of the counters.
C18_CountersLocked ==
    /\ [][(call_end_time # NoTime /\ Len(summaries) >= 1) =>
             UNCHANGED <<silence_events, prompts_sent, user_speech_events,
                         bot_speech_events>>]_vars
    /\ []((call_end_time # NoTime /\ Len(summaries) >= 1) =>
             /\ summaries[1].silence_events = silence_events
             /\ summaries[1].prompts_sent = prompts_sent
             /\ summaries[1].user_speech_events = user_speech_events
             /\ summaries[1].bot_speech_events = bot_speech_events)

\* C19: whenever the loop task is not inside a prompt action (it sleeps
\* between checks, has exited or was cancelled), prompts_sent equals the
\* number of prompts handed to the synthesis sink.
C19_SentEqualsDispatched ==
    ~InPromptAction => prompts_sent = dispatched

\* C20: in every reachable state silence_events equals prompts_sent and
\* 0 <= unanswered_count <= prompts_sent, and unanswered_count is the
\* number of prompts counted since the last UserStartedSpeaking frame that
\* was handled (since the start when there was none).
C20_CounterRelations ==
    /\ silence_events = prompts_sent
    /\ 0 <= unanswered_count
    /\ unanswered_count <= prompts_sent
    /\ unanswered_count = prompts_sent - prompts_at_user

C20_Witness ==
    /\ prompts_sent = 2
    /\ silence_events = 2
    /\ user_speech_events = 1
    /\ prompts_at_user = 1
    /\ unanswered_count = 1

====
